---- MODULE Spec2Model ----
(***************************************************************************)
(* The catalog crawler of catalog_crawler/crawler.py as a state machine:   *)
(* the frontier (CrawlState), the discovery loop, the product tasks behind *)
(* the semaphore, the retrying fetch, the files it writes, and the         *)
(* command line's handling of an interrupt (cli.py); the link extraction   *)
(* of parsers/listing_parser.py; the image parse, the gallery and the      *)
(* additional-information tables of parsers/product_parser.py; and the     *)
(* cache of backend/app/core/cache.py.                                     *)
(***************************************************************************)
EXTENDS Integers, Sequences, FiniteSets, TLC

\* ------------------------------------------------------------------ bounds

\* URLs 1..NumPages are pages reachable through the frontier.
NumPages == 12
\* URLs NumPages+1..NumPages+NumProducts are product pages linked from listings.
NumProducts == 3
\* Invocations of the command line (the first run and its resumptions).
MaxRuns == 2
\* The --retries settings drawn are 1 and MaxRetries.
MaxRetries == 3
\* Largest --concurrency setting drawn.
MaxConcurrency == 2

\* ------------------------------------------------------------ program constants

\* stop_after_attempt(3) of the retry decorator of _fetch_page.
StopAfterAttempt == 3
\* "if pages_crawled % 10 == 0" of _discover_products.
SaveEvery == 10
\* delay: float = 0.5, in milliseconds.
DelayMs == 500
\* wait_exponential(multiplier=1, min=2, max=30), in seconds.
WaitMultiplier == 1
WaitMin == 2
WaitMax == 30

\* max_pages: Optional[int] = None
None == -1
\* A file that does not exist.
NoFile == [exists |-> FALSE]

Pages == 1..NumPages
ProductIds == (NumPages + 1)..(NumPages + NumProducts)
CatalogueUrls == 1..(NumPages + NumProducts)
\* urljoin(self.base_url, self.start_path)
StartUrl == 1

\* What a URL answers: 2xx, 429, 5xx, 404, or no answer (connection error).
Statuses == {"ok", "rate", "server", "notfound", "connect"}

VARIABLES
    site,               \* the storefront: URL -> what it answers and links to
    cfg,                \* the settings given on the command line
    force,              \* --force of this invocation
    run,                \* number of this invocation
    pc,                 \* where run() / main() stands
    visited_urls,       \* CrawlState.visited_urls
    pending_urls,       \* CrawlState.pending_urls
    product_urls,       \* CrawlState.product_urls
    products,           \* self.products (each Product by its product_url)
    errors,             \* self.report.errors
    report,             \* the counters of self.report
    pages_crawled,      \* the local of _discover_products
    cur,                \* the url popped by the discovery loop
    fstate,             \* URL -> where the _fetch_page call for it stands
    attempts,           \* URL -> requests sent by that call
    ferr,               \* URL -> the exception the call ended with
    tstate,             \* URL -> where its product task stands
    sem,                \* free slots of self.semaphore
    state_file,         \* .crawl_state.json
    jsonl_file,         \* catalog.jsonl
    report_file,        \* report.json
    exit_code,          \* the exit code of the process, None while it runs
    prev_product_urls,  \* product_urls of the earlier, interrupted invocations
    errors_at_fetch,    \* len(report.errors) when _fetch_products was called
    fetch_log,          \* URL -> the sleeps and requests of its _fetch_page call
    img,                \* the <img> element handed to _parse_image
    image,              \* what _parse_image made of it
    elems,              \* the gallery elements of a product page, in document order
    images,             \* what _extract_images made of them
    rows,               \* the table rows of a product page, in document order
    additional_information, \* what _extract_additional_info made of them
    cache,              \* Cache._cache: the entries in the order of the OrderedDict
    now,                \* time.time()
    recency,            \* the keys of the cache in the order of their last use
    last_set,           \* what the last call of Cache.set found and evicted
    last_get            \* whether the last call of Cache.get found an entry, whether it
                        \* returned its value, and whether its expiry time had passed

crawler_vars ==
    <<site, cfg, force, run, pc, visited_urls, pending_urls, product_urls,
      products, errors, report, pages_crawled, cur, fstate, attempts, ferr,
      tstate, sem, state_file, jsonl_file, report_file, exit_code,
      prev_product_urls, errors_at_fetch, fetch_log>>

image_vars == <<img, image>>

gallery_vars == <<elems, images>>

info_vars == <<rows, additional_information>>

parser_vars == <<image_vars, gallery_vars, info_vars>>

cache_vars == <<cache, now, recency, last_set, last_get>>

vars == <<crawler_vars, parser_vars, cache_vars>>

\* The URLs of the storefront crawled.
URLs == DOMAIN site

\* ------------------------------------------------------------------ the site

\* The listing page a product is linked from: the first product from the
\* last page, the second from the start page, the others from no page.
ProductHome(p) ==
    IF p = NumPages + 1 THEN NumPages
    ELSE IF p = NumPages + 2 THEN StartUrl
    ELSE 0

Page(st, isp, par, pl, cl, gl) ==
    [status |-> st, is_product |-> isp, parses |-> par,
     product_urls |-> pl, category_urls |-> cl, pagination_urls |-> gl]

\* A paginated catalogue: page u shows previous/next links and links the
\* categories two pages away; page s (if any) misbehaves in the way k.
ChainSite(s, k) ==
    [u \in CatalogueUrls |->
        IF u \in Pages
        THEN Page(IF u = s /\ k \in Statuses THEN k ELSE "ok",
                  u = s /\ k = "product",
                  TRUE,
                  {p \in ProductIds : ProductHome(p) = u},
                  {u - 2, u + 2} \cap Pages,
                  {u - 1, u + 1} \cap Pages)
        ELSE Page("ok", TRUE, TRUE, {}, {}, {})]

ChainSites ==
    {ChainSite(s, k) : s \in Pages, k \in (Statuses \cup {"product"})}

\* A one-listing shop: the start page links every product and a second page;
\* the second page answers st2 and product u answers as Behaviours[b[u]] says
\* (a page that answers may still fail to parse).
Behaviours ==
    <<[status |-> "ok", parses |-> TRUE], [status |-> "ok", parses |-> FALSE],
      [status |-> "rate", parses |-> TRUE], [status |-> "notfound", parses |-> TRUE],
      [status |-> "connect", parses |-> TRUE]>>

\* What the second page of the shop may answer.
SecondPageStatuses == {"ok", "server", "notfound"}

\* The products are interchangeable: one assignment of behaviours per multiset.
Assignments ==
    {b \in [ProductIds -> 1..Len(Behaviours)] :
        \A p, q \in ProductIds : p < q => b[p] <= b[q]}

ShopSite(st2, b) ==
    [u \in CatalogueUrls |->
        IF u = StartUrl THEN Page("ok", FALSE, TRUE, ProductIds, {}, {2})
        ELSE IF u \in Pages THEN Page(st2, FALSE, TRUE, {}, {}, {})
        ELSE Page(Behaviours[b[u]].status, TRUE, Behaviours[b[u]].parses, {}, {}, {})]

ShopSites ==
    {ShopSite(st2, b) : st2 \in SecondPageStatuses, b \in Assignments}

\* ------------------------------------------------------------ listing pages

\* Most <a> elements a listing page is drawn with.
MaxLinks == 2

\* The host of --base-url, and another host.
BaseHost == "shop"
LinkHosts == <<BaseHost, "other">>
\* The start path, a product page and a category page.
LinkPaths == <<"/store/", "/product/x/", "/product-category/c/">>
Queries == <<"", "ref=abc">>
Fragments == <<"", "section">>

IndexOf(seq, x) == CHOOSE i \in 1..Len(seq) : seq[i] = x

\* A URL string by its parts, as urlparse splits it.
UrlRecords ==
    [host : {LinkHosts[i] : i \in 1..Len(LinkHosts)},
     path : {LinkPaths[i] : i \in 1..Len(LinkPaths)},
     query : {Queries[i] : i \in 1..Len(Queries)},
     fragment : {Fragments[i] : i \in 1..Len(Fragments)}]

\* The number a URL string goes by in the frontier: distinct strings have
\* distinct numbers, and urljoin(base_url, "/store/") is StartUrl.
UrlId(url) ==
    1 + (IndexOf(Fragments, url.fragment) - 1)
      + Len(Fragments) * ((IndexOf(Queries, url.query) - 1)
      + Len(Queries) * ((IndexOf(LinkPaths, url.path) - 1)
      + Len(LinkPaths) * (IndexOf(LinkHosts, url.host) - 1)))

LinkUrls == 1..(Len(LinkHosts) * Len(LinkPaths) * Len(Queries) * Len(Fragments))

UrlTable == [u \in LinkUrls |-> CHOOSE url \in UrlRecords : UrlId(url) = u]

\* The string of a frontier entry.
UrlOf(u) == UrlTable[u]

\* An <a> of a listing page: its href (host "" for a root-relative href) and
\* whether a pagination selector matches it.
Anchors ==
    [host : {""} \cup {LinkHosts[i] : i \in 1..Len(LinkHosts)},
     path : {LinkPaths[i] : i \in 1..Len(LinkPaths)},
     query : {Queries[i] : i \in 1..Len(Queries)},
     fragment : {Fragments[i] : i \in 1..Len(Fragments)},
     in_pagination : BOOLEAN]

\* The <a> elements drawn: the ones of the pagination lead to the listing,
\* the others to a product or to a category.
RawLinks == {a \in Anchors : a.in_pagination <=> a.path = "/store/"}

\* urljoin(current_url, href)
UrlJoin(current, href) ==
    [host |-> IF href.host = "" THEN current.host ELSE href.host,
     path |-> href.path, query |-> href.query, fragment |-> href.fragment]

\* "/product/" in href, "/product-category/" in href: the substring test on
\* the hrefs drawn.
HrefContains(href, part) ==
    <<href.path, part>> \in {<<"/product/x/", "/product/">>,
                             <<"/product-category/c/", "/product-category/">>}

SameNetlocAlways(url) == TRUE

\* urlparse(full_url).netloc == urlparse(self.base_url).netloc
SameNetloc(url) == url.host = BaseHost

\* full_url.split("?")[0].split("#")[0]
StripQueryAndFragment(url) == [url EXCEPT !.query = "", !.fragment = ""]

\* ListingParser._extract_product_urls: the last selector matches every <a>
\* whose href contains "/product/".
ExtractProductUrls(html, current) ==
    {UrlId(StripQueryAndFragment(UrlJoin(current, a))) :
        a \in {b \in html : HrefContains(b, "/product/")
                              /\ SameNetloc(UrlJoin(current, b))}}

\* ListingParser._extract_category_urls
ExtractCategoryUrls(html, current) ==
    {UrlId(StripQueryAndFragment(UrlJoin(current, a))) :
        a \in {b \in html : HrefContains(b, "/product-category/")
                              /\ SameNetloc(UrlJoin(current, b))}}

\* ListingParser._extract_pagination: the URL is added as urljoin gave it.
ExtractPagination(html, current) ==
    {UrlId(UrlJoin(current, a)) :
        a \in {b \in html : b.in_pagination /\ SameNetloc(UrlJoin(current, b))}}

RECURSIVE SetsUpTo(_, _)
\* The subsets of S of at most k elements.
SetsUpTo(S, k) ==
    IF k = 0 THEN {{}}
    ELSE LET smaller == SetsUpTo(S, k - 1)
         IN  smaller \cup {h \cup {a} : h \in smaller, a \in S}

\* A shop whose start page shows the <a> elements html under every query
\* string and fragment; /product/x/ is a product page, the category page a
\* listing without links.
LinkSite(html) ==
    [u \in LinkUrls |->
        LET url == UrlOf(u)
        IN  [anchors |-> IF url.path = "/store/" THEN html ELSE {},
             status |-> "ok",
             is_product |-> url.path = "/product/x/",
             parses |-> TRUE,
             product_urls |->
                IF url.path = "/store/" THEN ExtractProductUrls(html, url) ELSE {},
             category_urls |->
                IF url.path = "/store/" THEN ExtractCategoryUrls(html, url) ELSE {},
             pagination_urls |->
                IF url.path = "/store/" THEN ExtractPagination(html, url) ELSE {}]]

LinkSites == {LinkSite(html) : html \in SetsUpTo(RawLinks, MaxLinks)}

\* ------------------------------------------------------------ the frontier

\* Python's truth value of max_pages: None and 0 are both false.
Truthy(m) == m # None /\ m # 0

InSeq(x, s) == \E i \in 1..Len(s) : s[i] = x

\* The orders in which "for x in list(a_set)" can yield the set.
Orders(S) ==
    {f \in [1..Cardinality(S) -> S] : \A i, j \in 1..Cardinality(S) : i # j => f[i] # f[j]}

EnqueueNoPendingCheck(pending, visited, url) ==
    IF url \notin visited THEN Append(pending, url) ELSE pending

\* if url not in visited_urls: if url not in pending_urls: pending_urls.append(url)
Enqueue(pending, visited, url) ==
    IF url \notin visited
    THEN IF ~InSeq(url, pending) THEN Append(pending, url) ELSE pending
    ELSE pending

PopFirstKeeps(pending) == pending

\* url = self.state.pending_urls.pop(0): what is left of the list
PopFirst(pending) == Tail(pending)

RECURSIVE EnqueueAll(_, _, _)
\* One "for ... in result.*_urls" loop of the merge.
EnqueueAll(pending, visited, links) ==
    IF links = <<>> THEN pending
    ELSE EnqueueAll(Enqueue(pending, visited, Head(links)), visited, Tail(links))

\* pending_urls after the category loop and then the pagination loop, for
\* every order the two lists can come in.
MergedPendings(pending, visited, page) ==
    {EnqueueAll(EnqueueAll(pending, visited, co), visited, po) :
        co \in Orders(page.category_urls), po \in Orders(page.pagination_urls)}

\* The category links that the merge appends (each counts one category found).
NewCategories(pending, visited, page) ==
    {c \in page.category_urls : c \notin visited /\ ~InSeq(c, pending)}

\* if pages_crawled % 10 == 0
NeedsSave(n) == n % SaveEvery = 0

RECURSIVE ListOf(_)
\* _save_state, lines 280 and 282: list(...) of a set, a JSON array of its
\* elements. The order Python iterates the set in is not kept by the load
\* (set(...) again), so the array is given in ascending order.
ListOf(S) ==
    IF S = {} THEN <<>>
    ELSE LET m == CHOOSE x \in S : \A y \in S : x <= y
         IN  <<m>> \o ListOf(S \ {m})

\* What _save_state writes.
SaveState(visited, pending, found) ==
    [exists |-> TRUE, visited_urls |-> ListOf(visited), pending_urls |-> pending,
     product_urls |-> ListOf(found)]

\* _load_state, lines 295-297: set(...) of the two arrays that were sets.
LoadSet(array) == {array[i] : i \in 1..Len(array)}

LoadPendingReversed(file) ==
    [i \in 1..Len(file.pending_urls) |->
        file.pending_urls[Len(file.pending_urls) + 1 - i]]

LoadPendingLost(file) == <<>>

\* state_data.get("pending_urls", [])
LoadPending(file) == file.pending_urls

\* ------------------------------------------------------------ the fetch

Transient == {"rate", "server"}

Smaller(a, b) == IF a <= b THEN a ELSE b

Larger(a, b) == IF a >= b THEN a ELSE b

\* The retry decorator, line 257: what tenacity's wait_exponential waits
\* after the attempt of the given number has failed,
\* max(min, min(multiplier * 2 ** (attempt_number - 1), max)), in milliseconds.
WaitExponential(attempt_number) ==
    1000 * Larger(WaitMin, Smaller(WaitMultiplier * 2 ^ (attempt_number - 1), WaitMax))

RetryEntrySkipsDelay == "request"

\* A retry calls _fetch_page again from its first statement, the sleep of
\* line 262.
RetryEntry == "delay"

RetryAny(status) == status # "ok"

\* retry_if_exception_type((RateLimitError, ServerError))
ShouldRetry(status) == status \in Transient

\* The exception a failed request raises.
ErrorOf(status) ==
    IF status = "rate" THEN "RateLimitError"
    ELSE IF status = "server" THEN "ServerError"
    ELSE IF status = "notfound" THEN "HTTPStatusError"
    ELSE "ConnectError"

InFlight == {"delay", "request", "backoff"}

CanAcquireAlways == TRUE

\* asyncio.Semaphore.acquire returns at once only while the value is positive.
CanAcquire == sem > 0

ProductTasksAndVisited == product_urls \cup visited_urls

\* product_urls = list(self.state.product_urls): one task per element
ProductTasks == product_urls

TotalFoundByUrls == Cardinality(product_urls)

\* self.report.total_products_found = len(self.products)
TotalProductsFound == Len(products)

ErrorsAfterDropped(u, e) == errors

ErrorsAfterTwice(u, e) == Append(Append(errors, [url |-> u, error |-> e]), [url |-> u, error |-> e])

\* self.report.errors.append({"url": url, "error": str(e)})
ErrorsAfter(u, e) == Append(errors, [url |-> u, error |-> e])

\* ------------------------------------------------------------ product images

\* Most candidates a srcset attribute is drawn with.
MaxCandidates == 3

\* A URL string of an image: as the page writes it, or resolved.
Relative(file) == [absolute |-> FALSE, file |-> file]

\* An attribute that is missing or empty: img.get(...) is None or "".
NoUrl == Relative("")

\* An attribute the element does not have, for which get(name, 0) gives 0.
NoAttribute == "(none)"

\* urljoin(current_url, src) of a relative src
UrlJoinFile(url) == [url EXCEPT !.absolute = TRUE]

\* The strings int() converts, among the ones drawn; every other raises
\* ValueError ("auto", "2x").
IntStrings == {"300", "400", "600", "1200"}

IntValue(s) ==
    CASE s = "300" -> 300
      [] s = "400" -> 400
      [] s = "600" -> 600
      [] s = "1200" -> 1200

\* parts[1].rstrip("w")
RStripW(s) ==
    CASE s = "300w" -> "300"
      [] s = "600w" -> "600"
      [] s = "1200w" -> "1200"
      [] OTHER -> s

\* The srcset candidates drawn, "url descriptor"; the last is a URL alone.
Candidates ==
    {[url |-> Relative("img-300.jpg"), descriptor |-> "300w"],
     [url |-> Relative("img-600.jpg"), descriptor |-> "600w"],
     [url |-> Relative("img-1200.jpg"), descriptor |-> "1200w"],
     [url |-> Relative("img-2x.jpg"), descriptor |-> "2x"],
     [url |-> Relative("img-plain.jpg"), descriptor |-> ""]}

\* The sequences over S of at most n elements.
SeqsUpTo(S, n) == UNION {[1..k -> S] : k \in 0..n}

\* The <img> elements drawn: src, the lazy-load attribute (data-src or
\* data-lazy-src), the srcset split at its commas, width and height.
Imgs ==
    [src : {NoUrl, Relative("img.jpg")},
     data_src : {NoUrl, Relative("lazy.jpg")},
     srcset : SeqsUpTo(Candidates, MaxCandidates),
     width : {NoAttribute, "600", "auto"},
     height : {NoAttribute, "400", "auto"}]

RECURSIVE SrcsetData(_)
\* _parse_image, lines 316-328: an entry of two or more parts is kept, with
\* its width if int() takes the descriptor without its trailing "w", with the
\* descriptor otherwise; an entry of one part is passed over.
SrcsetData(entries) ==
    IF entries = <<>> THEN <<>>
    ELSE LET e == Head(entries)
             rest == SrcsetData(Tail(entries))
         IN  IF e.descriptor = "" THEN rest
             ELSE IF RStripW(e.descriptor) \in IntStrings
             THEN <<[url |-> UrlJoinFile(e.url),
                     width |-> IntValue(RStripW(e.descriptor))]>> \o rest
             ELSE <<[url |-> UrlJoinFile(e.url), descriptor |-> e.descriptor]>> \o rest

\* _parse_image, lines 331-338: max over the entries that have an int width
\* (the first of the largest), 0 for default=None.
Largest(data) ==
    LET numeric == {i \in 1..Len(data) : "width" \in DOMAIN data[i]}
    IN  IF numeric = {} THEN 0
        ELSE CHOOSE i \in numeric :
                \A j \in numeric :
                    \/ data[i].width > data[j].width
                    \/ data[i].width = data[j].width /\ i <= j

\* int(img.get("width", 0)) does not raise
IntTakes(attr) == attr = NoAttribute \/ attr \in IntStrings

\* int(img.get("width", 0)) or None
IntOrNone(attr) == IF attr = NoAttribute THEN None ELSE IntValue(attr)

\* ProductParser._parse_image
ParseImage(el) ==
    LET src == IF el.src # NoUrl THEN el.src ELSE el.data_src
        data == SrcsetData(el.srcset)
    IN  IF src = NoUrl THEN [kind |-> "None"]
        ELSE IF ~IntTakes(el.width) \/ ~IntTakes(el.height)
        THEN [kind |-> "ValueError"]
        ELSE [kind |-> "image",
              url |-> IF Largest(data) # 0 THEN data[Largest(data)].url
                      ELSE UrlJoinFile(src),
              width |-> IntOrNone(el.width),
              height |-> IntOrNone(el.height),
              srcset |-> data]

\* No element has been handed to the parser.
Unparsed == [kind |-> "unparsed"]

\* ------------------------------------------------------------ the gallery

\* Most gallery elements a product page is drawn with.
MaxElems == 2

\* A URL string the page writes in full: what urljoin makes of the relative
\* one of the same file.
Absolute(file) == [absolute |-> TRUE, file |-> file]

\* The elements the three gallery selectors match.  selector 1 and 2 are
\* containers (.woocommerce-product-gallery__image, .product-gallery-image)
\* that may hold an <img> with the src given, and carry data-large_image and
\* data-src themselves; selector 3 (.flex-control-thumbs img) is an <img> with
\* its own src, data-src and data-large_image.
GalleryElems ==
    {e \in [selector : 1..3,
            has_img : BOOLEAN,
            src : {NoUrl, Relative("a.jpg"), Absolute("b.jpg")},
            data_src : {NoUrl, Relative("b.jpg")},
            large : {NoUrl, Relative("a.jpg"), Absolute("a.jpg")}] :
        /\ e.selector = 3 => e.has_img
        /\ ~e.has_img => e.src = NoUrl}

\* img = elem if elem.name == "img" else elem.select_one("img")
ImgOf(e) ==
    [src |-> e.src,
     data_src |-> IF e.selector = 3 THEN e.data_src ELSE NoUrl,
     srcset |-> <<>>, width |-> NoAttribute, height |-> NoAttribute]

RECURSIVE SelectAll(_, _)
\* soup.select(selector): the elements of the selector, in document order
SelectAll(es, s) ==
    IF es = <<>> THEN <<>>
    ELSE (IF Head(es).selector = s THEN <<Head(es)>> ELSE <<>>)
            \o SelectAll(Tail(es), s)

RECURSIVE SelectOneImg(_)
\* soup.select_one(".woocommerce-product-gallery__image img"): the first <img>
\* inside a container of the first gallery selector, as a list of at most one
SelectOneImg(es) ==
    IF es = <<>> THEN <<>>
    ELSE IF Head(es).selector = 1 /\ Head(es).has_img THEN <<Head(es)>>
    ELSE SelectOneImg(Tail(es))

\* result["main"]: no <img>, or one _parse_image returns None for
NoImage == [kind |-> "None"]

\* _extract_images, the loop over main_selectors; the pages drawn match the
\* first of them only.
ExtractMain(es) ==
    IF SelectOneImg(es) = <<>> THEN NoImage
    ELSE LET parsed == ParseImage(ImgOf(SelectOneImg(es)[1]))
         IN  IF parsed.kind = "image" THEN parsed ELSE NoImage

\* if img: image = self._parse_image(img, current_url);
\* if image and image.url not in seen_urls: append, add
AddImage(st, e) ==
    LET parsed == ParseImage(ImgOf(e))
    IN  IF e.has_img /\ parsed.kind = "image" /\ parsed.url \notin st.seen_urls
        THEN [gallery |-> Append(st.gallery, parsed),
              seen_urls |-> st.seen_urls \cup {parsed.url}]
        ELSE st

\* large_src = elem.get("data-large_image") or elem.get("data-src");
\* if large_src and large_src not in seen_urls: append the resolved URL, add it
AddLarge(st, e) ==
    LET large_src == IF e.large # NoUrl THEN e.large ELSE e.data_src
    IN  IF large_src # NoUrl /\ large_src \notin st.seen_urls
        THEN [gallery |-> Append(st.gallery,
                                 [kind |-> "image", url |-> UrlJoinFile(large_src),
                                  width |-> None, height |-> None, srcset |-> <<>>]),
              seen_urls |-> st.seen_urls \cup {UrlJoinFile(large_src)}]
        ELSE st

RECURSIVE GalleryLoop(_, _)
\* for elem in soup.select(selector): the image of the element, then its
\* large image
GalleryLoop(es, st) ==
    IF es = <<>> THEN st
    ELSE GalleryLoop(Tail(es), AddLarge(AddImage(st, Head(es)), Head(es)))

\* ProductParser._extract_images
ExtractImages(es) ==
    LET main == ExtractMain(es)
        st == GalleryLoop(SelectAll(es, 1) \o SelectAll(es, 2) \o SelectAll(es, 3),
                          [gallery |-> <<>>,
                           seen_urls |-> IF main.kind = "image" THEN {main.url} ELSE {}])
    IN  [kind |-> "images", main |-> main, gallery |-> st.gallery]

GalleryIdle ==
    /\ elems = <<>>
    /\ images = Unparsed

\* ------------------------------------------------------------ additional information

\* Most table rows a product page is drawn with.
MaxRows == 2

InfoKeys == {"Weight", "Dimensions"}

\* The text of the value cell of a row, by the text of its key cell.
ValueOf(key) == IF key = "Weight" THEN "14 oz" ELSE "4 x 4 x 5 in"

\* The <tr> elements drawn: inside #tab-additional_information or not, inside
\* a table of class woocommerce-product-attributes or not, with a <th> and a
\* <td> or not, with cells of the classes
\* woocommerce-product-attributes-item__label and __value or not.
TableRows ==
    [in_tab : BOOLEAN, in_attributes : BOOLEAN, th_td : BOOLEAN,
     labelled : BOOLEAN, key : InfoKeys]

\* AdditionalInfo(key=th.get_text(strip=True), value=td.get_text(strip=True))
AdditionalInfo(r) == [key |-> r.key, value |-> ValueOf(r.key)]

RECURSIVE TabEntries(_)
\* for row in info_tab.select("tr"): if th and td: append
TabEntries(rs) ==
    IF rs = <<>> THEN <<>>
    ELSE (IF Head(rs).in_tab /\ Head(rs).th_td
          THEN <<AdditionalInfo(Head(rs))>> ELSE <<>>) \o TabEntries(Tail(rs))

RECURSIVE AttributeEntries(_)
\* for row in soup.select(".woocommerce-product-attributes tr"):
\* if label and value: append
AttributeEntries(rs) ==
    IF rs = <<>> THEN <<>>
    ELSE (IF Head(rs).in_attributes /\ Head(rs).labelled
          THEN <<AdditionalInfo(Head(rs))>> ELSE <<>>) \o AttributeEntries(Tail(rs))

\* ProductParser._extract_additional_info
ExtractAdditionalInfo(rs) ==
    [kind |-> "list", list |-> TabEntries(rs) \o AttributeEntries(rs)]

InfoIdle ==
    /\ rows = <<>>
    /\ additional_information = Unparsed

ParserIdle ==
    /\ img = [src |-> NoUrl, data_src |-> NoUrl, srcset |-> <<>>,
              width |-> NoAttribute, height |-> NoAttribute]
    /\ image = Unparsed
    /\ GalleryIdle
    /\ InfoIdle

\* ------------------------------------------------------------ the cache

\* max_size of the cache constructed.
MaxCacheSize == 3
\* default_ttl of the cache constructed, in ticks of the clock.
DefaultTtl == 1
\* The clock stops after MaxTime ticks.
MaxTime == 2

\* One key more than the cache holds.
Keys == 1..(MaxCacheSize + 1)

KeysOf(entries) == {entries[i].key : i \in 1..Len(entries)}

EntryOf(entries, k) == entries[CHOOSE i \in 1..Len(entries) : entries[i].key = k]

\* del self._cache[key]
Without(entries, ks) == SelectSeq(entries, LAMBDA e : e.key \notin ks)

\* self._cache.move_to_end(key)
MoveToEnd(entries, k) == Append(Without(entries, {k}), EntryOf(entries, k))

NeverExpired(expiry, t) == FALSE

\* _is_expired: time.time() > expiry
IsExpired(expiry, t) == t > expiry

\* set, lines 86-87: the number of popitem(last=False) calls of the loop
\* "while len(self._cache) >= self.max_size".
Popped(entries) ==
    IF Len(entries) >= MaxCacheSize THEN Len(entries) - MaxCacheSize + 1 ELSE 0

\* self._cache[key] = (value, expiry): a key the OrderedDict holds keeps its
\* place, a new key goes to the end.
Assign(entries, e) ==
    IF e.key \in KeysOf(entries)
    THEN [i \in 1..Len(entries) |-> IF entries[i].key = e.key THEN e ELSE entries[i]]
    ELSE Append(entries, e)

\* The keys held in the order of their last use (a set or a successful get),
\* the least recently used first.
Used(order, k) == SelectSeq(order, LAMBDA x : x # k) \o <<k>>

Dropped(order, ks) == SelectSeq(order, LAMBDA x : x \notin ks)

\* No set has been called, or another call followed it.
NoSet == [key |-> 0, added |-> FALSE, full |-> FALSE, evicted |-> <<>>, lru |-> 0]

\* No get has been called, or another call followed it.
NoGet == [found |-> FALSE, returned |-> FALSE, passed |-> FALSE]

\* Cache.__init__
CacheConstructed ==
    /\ cache = <<>>
    /\ now = 0
    /\ recency = <<>>
    /\ last_set = NoSet
    /\ last_get = NoGet

\* ------------------------------------------------------------ construction

ZeroReport ==
    [total_pages_crawled |-> 0, total_products_found |-> 0,
     total_categories_found |-> 0]

\* CatalogCrawler.__init__: what a fresh process holds in memory.
Constructed ==
    /\ visited_urls = {}
    /\ pending_urls = <<>>
    /\ product_urls = {}
    /\ products = <<>>
    /\ errors = <<>>
    /\ report = ZeroReport
    /\ pages_crawled = 0
    /\ cur = 0
    /\ fstate = [u \in URLs |-> "idle"]
    /\ attempts = [u \in URLs |-> 0]
    /\ ferr = [u \in URLs |-> "none"]
    /\ tstate = [u \in URLs |-> "none"]
    /\ sem = cfg.concurrency
    /\ exit_code = None
    /\ errors_at_fetch = 0
    /\ fetch_log = [u \in URLs |-> <<>>]
    /\ pc = "start"

InitCrawler(sites, cfgs) ==
    /\ site \in sites
    /\ cfg \in cfgs
    /\ force = FALSE
    /\ run = 1
    /\ state_file = NoFile
    /\ jsonl_file = NoFile
    /\ report_file = NoFile
    /\ prev_product_urls = {}
    /\ Constructed

\* The crawler of the command line: it parses no image by itself here and
\* uses no cache.
InitWith(sites, cfgs) ==
    /\ InitCrawler(sites, cfgs)
    /\ ParserIdle
    /\ CacheConstructed

\* A long paginated catalogue, the default retries, one product task at a
\* time, with and without --max-pages.
Init ==
    InitWith(ChainSites,
             [delay : {DelayMs}, retries : {StopAfterAttempt}, concurrency : {1},
              max_pages : {None, NumPages - 1}])

\* A one-listing shop whose products answer in every way, under every setting.
InitShop ==
    InitWith(ShopSites,
             [delay : {DelayMs}, retries : {1, MaxRetries}, concurrency : 1..MaxConcurrency,
              max_pages : {None}])

\* A shop drawn by the <a> elements of its start page, all pages answering,
\* crawled without --max-pages and with --max-pages 0.
InitLinks ==
    InitWith(LinkSites,
             [delay : {DelayMs}, retries : {StopAfterAttempt}, concurrency : {1}, max_pages : {None, 0}])

\* ------------------------------------------------------------ run()

\* run(), lines 108-119: resume from the state file or start fresh.
Start ==
    /\ pc = "start"
    /\ IF ~force /\ state_file # NoFile
       THEN /\ visited_urls' = LoadSet(state_file.visited_urls)
            /\ pending_urls' = LoadPending(state_file)
            /\ product_urls' = LoadSet(state_file.product_urls)
       ELSE /\ pending_urls' = <<StartUrl>>
            /\ UNCHANGED <<visited_urls, product_urls>>
    /\ pages_crawled' = 0
    /\ pc' = "discover"
    /\ UNCHANGED <<site, cfg, force, run, products, errors, report, cur, fstate,
                   attempts, ferr, tstate, sem, state_file, jsonl_file,
                   report_file, exit_code, prev_product_urls, errors_at_fetch>>
    /\ UNCHANGED <<parser_vars, cache_vars>>
    /\ UNCHANGED fetch_log

\* _discover_products, lines 170-181: the head of the loop up to the call of
\* _fetch_page, which suspends in its politeness delay.
DiscoverLoop ==
    /\ pc = "discover"
    /\ IF pending_urls = <<>> \/ (Truthy(cfg.max_pages) /\ pages_crawled >= cfg.max_pages)
       THEN /\ pc' = "fetch_products"
            /\ UNCHANGED <<pending_urls, cur, fstate, attempts, fetch_log>>
       ELSE /\ pending_urls' = PopFirst(pending_urls)
            /\ IF Head(pending_urls) \in visited_urls
               THEN UNCHANGED <<pc, cur, fstate, attempts, fetch_log>>
               ELSE /\ cur' = Head(pending_urls)
                    /\ fstate' = [fstate EXCEPT ![Head(pending_urls)] = "delay"]
                    /\ attempts' = [attempts EXCEPT ![Head(pending_urls)] = 0]
                    /\ fetch_log' = [fetch_log EXCEPT ![Head(pending_urls)] = <<>>]
                    /\ pc' = "disc_fetch"
    /\ UNCHANGED <<site, cfg, force, run, visited_urls, product_urls, products,
                   errors, report, pages_crawled, ferr, tstate, sem, state_file,
                   jsonl_file, report_file, exit_code, prev_product_urls,
                   errors_at_fetch>>
    /\ UNCHANGED <<parser_vars, cache_vars>>

\* _fetch_page, line 262: await asyncio.sleep(self.delay) ends.
FetchDelay(u) ==
    /\ pc \in {"disc_fetch", "gather"}
    /\ fstate[u] = "delay"
    /\ fstate' = [fstate EXCEPT ![u] = "request"]
    /\ UNCHANGED <<site, cfg, force, run, pc, visited_urls, pending_urls,
                   product_urls, products, errors, report, pages_crawled, cur,
                   attempts, ferr, tstate, sem, state_file, jsonl_file,
                   report_file, exit_code, prev_product_urls, errors_at_fetch>>
    /\ UNCHANGED <<parser_vars, cache_vars>>
    /\ fetch_log' = [fetch_log EXCEPT ![u] = Append(@, [kind |-> "delay", ms |-> cfg.delay])]

\* _fetch_page, lines 264-275 under the retry decorator of lines 254-258: the
\* request is answered; a transient failure is retried until the attempt
\* limit, and then tenacity raises RetryError.
FetchRequest(u) ==
    /\ pc \in {"disc_fetch", "gather"}
    /\ fstate[u] = "request"
    /\ attempts' = [attempts EXCEPT ![u] = @ + 1]
    /\ IF site[u].status = "ok"
       THEN /\ fstate' = [fstate EXCEPT ![u] = "ok"]
            /\ UNCHANGED ferr
       ELSE IF ShouldRetry(site[u].status) /\ attempts[u] + 1 < StopAfterAttempt
       THEN /\ fstate' = [fstate EXCEPT ![u] = "backoff"]
            /\ UNCHANGED ferr
       ELSE /\ fstate' = [fstate EXCEPT ![u] = "failed"]
            /\ ferr' = [ferr EXCEPT ![u] =
                            IF ShouldRetry(site[u].status) THEN "RetryError"
                            ELSE ErrorOf(site[u].status)]
    /\ UNCHANGED <<site, cfg, force, run, pc, visited_urls, pending_urls,
                   product_urls, products, errors, report, pages_crawled, cur,
                   tstate, sem, state_file, jsonl_file, report_file, exit_code,
                   prev_product_urls, errors_at_fetch>>
    /\ UNCHANGED <<parser_vars, cache_vars>>
    /\ fetch_log' = [fetch_log EXCEPT ![u] = Append(@, [kind |-> "request", ms |-> 0])]

\* wait_exponential of the retry decorator: the backoff sleep ends and
\* _fetch_page is called again, starting with its politeness delay.
FetchBackoff(u) ==
    /\ pc \in {"disc_fetch", "gather"}
    /\ fstate[u] = "backoff"
    /\ fstate' = [fstate EXCEPT ![u] = RetryEntry]
    /\ UNCHANGED <<site, cfg, force, run, pc, visited_urls, pending_urls,
                   product_urls, products, errors, report, pages_crawled, cur,
                   attempts, ferr, tstate, sem, state_file, jsonl_file,
                   report_file, exit_code, prev_product_urls, errors_at_fetch>>
    /\ UNCHANGED <<parser_vars, cache_vars>>
    /\ fetch_log' = [fetch_log EXCEPT ![u] = Append(@, [kind |-> "backoff", ms |-> WaitExponential(attempts[u])])]

\* _discover_products, lines 182-223: what the loop body does once _fetch_page
\* has returned or raised, down to the end of the iteration.
DiscoverHandle ==
    /\ pc = "disc_fetch"
    /\ fstate[cur] \in {"ok", "failed"}
    /\ IF fstate[cur] = "failed"
       THEN /\ errors' = ErrorsAfter(cur, ferr[cur])
            /\ UNCHANGED <<visited_urls, pending_urls, product_urls, report,
                           pages_crawled, state_file>>
       ELSE /\ visited_urls' = visited_urls \cup {cur}
            /\ pages_crawled' = pages_crawled + 1
            /\ UNCHANGED errors
            /\ IF site[cur].is_product
               THEN /\ product_urls' = product_urls \cup {cur}
                    /\ report' = [report EXCEPT !.total_pages_crawled = pages_crawled']
                    /\ UNCHANGED <<pending_urls, state_file>>
               ELSE /\ product_urls' = product_urls \cup site[cur].product_urls
                    /\ pending_urls' \in MergedPendings(pending_urls, visited_urls', site[cur])
                    /\ report' =
                         [report EXCEPT
                            !.total_pages_crawled = pages_crawled',
                            !.total_categories_found =
                                @ + Cardinality(NewCategories(pending_urls, visited_urls',
                                                              site[cur]))]
                    /\ IF NeedsSave(pages_crawled')
                       THEN state_file' = SaveState(visited_urls', pending_urls', product_urls')
                       ELSE UNCHANGED state_file
    /\ fstate' = [fstate EXCEPT ![cur] = "idle"]
    /\ pc' = "discover"
    /\ UNCHANGED <<site, cfg, force, run, products, cur, attempts, ferr, tstate,
                   sem, jsonl_file, report_file, exit_code, prev_product_urls,
                   errors_at_fetch>>
    /\ UNCHANGED <<parser_vars, cache_vars>>
    /\ UNCHANGED fetch_log

\* _fetch_products, lines 227-237: one task per product URL is handed to gather.
FetchProducts ==
    /\ pc = "fetch_products"
    /\ tstate' = [u \in URLs |-> IF u \in ProductTasks THEN "waiting" ELSE "none"]
    /\ errors_at_fetch' = Len(errors)
    /\ pc' = "gather"
    /\ UNCHANGED <<site, cfg, force, run, visited_urls, pending_urls, product_urls,
                   products, errors, report, pages_crawled, cur, fstate, attempts,
                   ferr, sem, state_file, jsonl_file, report_file, exit_code,
                   prev_product_urls>>
    /\ UNCHANGED <<parser_vars, cache_vars>>
    /\ UNCHANGED fetch_log

\* _fetch_product_with_semaphore, lines 243-245: the task enters the gate and
\* calls _fetch_page.
TaskAcquire(u) ==
    /\ pc = "gather"
    /\ tstate[u] = "waiting"
    /\ CanAcquire
    /\ sem' = sem - 1
    /\ tstate' = [tstate EXCEPT ![u] = "running"]
    /\ fstate' = [fstate EXCEPT ![u] = "delay"]
    /\ attempts' = [attempts EXCEPT ![u] = 0]
    /\ UNCHANGED <<site, cfg, force, run, pc, visited_urls, pending_urls,
                   product_urls, products, errors, report, pages_crawled, cur,
                   ferr, state_file, jsonl_file, report_file, exit_code,
                   prev_product_urls, errors_at_fetch>>
    /\ UNCHANGED <<parser_vars, cache_vars>>
    /\ fetch_log' = [fetch_log EXCEPT ![u] = <<>>]

ProductsAfterReplaced(u) == <<u>>

\* self.products.append(product), the Product having product_url=url
ProductsAfter(u) == Append(products, u)

ReleaseOnSuccess(u) == IF fstate[u] = "ok" /\ site[u].parses THEN sem + 1 ELSE sem

\* _fetch_product_with_semaphore, line 243: the free slots once the task of u
\* has left its "async with self.semaphore", by return or by exception.
Release(u) == sem + 1

\* _fetch_product_with_semaphore, lines 245-252: the page is parsed and the
\* Product appended, or the exception of the fetch or of the parse is recorded;
\* leaving the "async with" frees the slot.
TaskFinish(u) ==
    /\ pc = "gather"
    /\ tstate[u] = "running"
    /\ fstate[u] \in {"ok", "failed"}
    /\ IF fstate[u] = "ok" /\ site[u].parses
       THEN /\ products' = ProductsAfter(u)
            /\ UNCHANGED errors
       ELSE /\ errors' = ErrorsAfter(u, IF fstate[u] = "ok" THEN "ParseError" ELSE ferr[u])
            /\ UNCHANGED products
    /\ sem' = Release(u)
    /\ tstate' = [tstate EXCEPT ![u] = "done"]
    /\ fstate' = [fstate EXCEPT ![u] = "idle"]
    /\ UNCHANGED <<site, cfg, force, run, pc, visited_urls, pending_urls,
                   product_urls, report, pages_crawled, cur, attempts, ferr,
                   state_file, jsonl_file, report_file, exit_code,
                   prev_product_urls, errors_at_fetch>>
    /\ UNCHANGED <<parser_vars, cache_vars>>
    /\ UNCHANGED fetch_log

DrainedNoneRunning == \A u \in URLs : tstate[u] # "running"

\* _fetch_products, line 237: gather returns when every task has ended, the ones that
\* were still waiting at the gate included.
Drained == \A u \in URLs : tstate[u] \in {"none", "done"}

\* run(), line 149, once gather has returned: _save_results writes one line
\* per Product of self.products.
SaveResults ==
    /\ pc = "gather"
    /\ Drained
    /\ jsonl_file' = [exists |-> TRUE, rows |-> products]
    /\ pc' = "results_saved"
    /\ UNCHANGED <<site, cfg, force, run, visited_urls, pending_urls, product_urls,
                   products, errors, report, pages_crawled, cur, fstate, attempts,
                   ferr, tstate, sem, state_file, report_file, exit_code,
                   prev_product_urls, errors_at_fetch>>
    /\ UNCHANGED <<parser_vars, cache_vars>>
    /\ UNCHANGED fetch_log

\* run(), lines 151-158: the report gets its product count and is written.
SaveReport ==
    /\ pc = "results_saved"
    /\ report' = [report EXCEPT !.total_products_found = TotalProductsFound]
    /\ report_file' = [exists |-> TRUE, report |-> report', errors |-> errors]
    /\ pc' = "report_saved"
    /\ UNCHANGED <<site, cfg, force, run, visited_urls, pending_urls, product_urls,
                   products, errors, pages_crawled, cur, fstate, attempts, ferr,
                   tstate, sem, state_file, jsonl_file, exit_code,
                   prev_product_urls, errors_at_fetch>>
    /\ UNCHANGED <<parser_vars, cache_vars>>
    /\ UNCHANGED fetch_log

CleanUpKeepsFile ==
    /\ pc = "report_saved"
    /\ exit_code' = 0
    /\ pc' = "done"
    /\ UNCHANGED <<site, cfg, force, run, visited_urls, pending_urls, product_urls,
                   products, errors, report, pages_crawled, cur, fstate, attempts,
                   ferr, tstate, sem, state_file, jsonl_file, report_file,
                   prev_product_urls, errors_at_fetch>>
    /\ UNCHANGED <<parser_vars, cache_vars>>
    /\ UNCHANGED fetch_log

\* run(), lines 160-164, and main(), lines 133-146: the state file is removed
\* and the process ends with exit code 0.
CleanUp ==
    /\ pc = "report_saved"
    /\ state_file' = NoFile
    /\ exit_code' = 0
    /\ pc' = "done"
    /\ UNCHANGED <<site, cfg, force, run, visited_urls, pending_urls, product_urls,
                   products, errors, report, pages_crawled, cur, fstate, attempts,
                   ferr, tstate, sem, jsonl_file, report_file, prev_product_urls,
                   errors_at_fetch>>
    /\ UNCHANGED <<parser_vars, cache_vars>>
    /\ UNCHANGED fetch_log

Running ==
    {"start", "discover", "disc_fetch", "fetch_products", "gather",
     "results_saved", "report_saved"}

\* main(), lines 148-150: KeyboardInterrupt ends asyncio.run, which cancels
\* the tasks (each leaves its "async with" and frees its slot); the handler
\* prints a message and exits with code 1. Nothing is written.
Interrupt ==
    /\ pc \in Running
    /\ pc' = "interrupted"
    /\ exit_code' = 1
    /\ fstate' = [u \in URLs |-> "idle"]
    /\ tstate' = [u \in URLs |->
                    IF tstate[u] \in {"waiting", "running"} THEN "cancelled"
                    ELSE tstate[u]]
    /\ sem' = cfg.concurrency
    /\ UNCHANGED <<site, cfg, force, run, visited_urls, pending_urls, product_urls,
                   products, errors, report, pages_crawled, cur, attempts, ferr,
                   state_file, jsonl_file, report_file, prev_product_urls,
                   errors_at_fetch>>
    /\ UNCHANGED <<parser_vars, cache_vars>>
    /\ fetch_log' = [u \in URLs |-> <<>>]

\* The command is invoked again after an interrupted run: a new process, the
\* files of the output directory as the last one left them.
Restart ==
    /\ pc = "interrupted"
    /\ run < MaxRuns
    /\ run' = run + 1
    /\ force' \in BOOLEAN
    /\ prev_product_urls' = prev_product_urls \cup product_urls
    /\ visited_urls' = {}
    /\ pending_urls' = <<>>
    /\ product_urls' = {}
    /\ products' = <<>>
    /\ errors' = <<>>
    /\ report' = ZeroReport
    /\ pages_crawled' = 0
    /\ cur' = 0
    /\ fstate' = [u \in URLs |-> "idle"]
    /\ attempts' = [u \in URLs |-> 0]
    /\ ferr' = [u \in URLs |-> "none"]
    /\ tstate' = [u \in URLs |-> "none"]
    /\ sem' = cfg.concurrency
    /\ exit_code' = None
    /\ errors_at_fetch' = 0
    /\ fetch_log' = [u \in URLs |-> <<>>]
    /\ pc' = "start"
    /\ UNCHANGED <<site, cfg, state_file, jsonl_file, report_file>>
    /\ UNCHANGED <<parser_vars, cache_vars>>

Next ==
    \/ Start
    \/ DiscoverLoop
    \/ DiscoverHandle
    \/ \E u \in URLs : FetchDelay(u)
    \/ \E u \in URLs : FetchRequest(u)
    \/ \E u \in URLs : FetchBackoff(u)
    \/ FetchProducts
    \/ \E u \in URLs : TaskAcquire(u)
    \/ \E u \in URLs : TaskFinish(u)
    \/ SaveResults
    \/ SaveReport
    \/ CleanUp
    \/ Interrupt
    \/ Restart

Spec == Init /\ [][Next]_vars

\* Runs that no interrupt ends.
NextFetch ==
    \/ Start
    \/ DiscoverLoop
    \/ DiscoverHandle
    \/ \E u \in URLs : FetchDelay(u)
    \/ \E u \in URLs : FetchRequest(u)
    \/ \E u \in URLs : FetchBackoff(u)
    \/ FetchProducts
    \/ \E u \in URLs : TaskAcquire(u)
    \/ \E u \in URLs : TaskFinish(u)
    \/ SaveResults
    \/ SaveReport
    \/ CleanUp

SpecFetch == InitShop /\ [][NextFetch]_vars

\* Runs on a paginated catalogue that no interrupt ends, under the scheduling
\* of the asyncio event loop: a coroutine that can go on is resumed, a sleep
\* ends, and a request is answered or times out (timeout=30.0).
SpecDiscovery == Init /\ [][NextFetch]_vars /\ WF_vars(NextFetch)

\* Runs on a one-listing shop that no interrupt ends, under the same
\* scheduling; asyncio.Semaphore wakes a waiting task when a slot is freed.
InitDrain ==
    InitWith({ShopSite("ok", b) : b \in Assignments},
             [delay : {DelayMs}, retries : {StopAfterAttempt},
              concurrency : 1..MaxConcurrency, max_pages : {None}])

SpecDrain == InitDrain /\ [][NextFetch]_vars /\ WF_vars(NextFetch)

\* Runs that no interrupt ends and in which no fetch is retried.
NextLinks ==
    \/ Start
    \/ DiscoverLoop
    \/ DiscoverHandle
    \/ \E u \in URLs : FetchDelay(u)
    \/ \E u \in URLs : FetchRequest(u)
    \/ FetchProducts
    \/ \E u \in URLs : TaskAcquire(u)
    \/ \E u \in URLs : TaskFinish(u)
    \/ SaveResults
    \/ SaveReport
    \/ CleanUp

SpecLinks == InitLinks /\ [][NextLinks]_vars

\* ------------------------------------------------------------ parsing a product image

\* An <img> of a product page, not parsed yet; the crawler and the cache are
\* as constructed.
InitImages ==
    /\ InitCrawler({ChainSite(0, "ok")},
                   [delay : {DelayMs}, retries : {StopAfterAttempt}, concurrency : {1}, max_pages : {None}])
    /\ img \in Imgs
    /\ image = Unparsed
    /\ GalleryIdle
    /\ InfoIdle
    /\ CacheConstructed

\* _extract_images, line 268: image = self._parse_image(img, current_url)
ParseImageCall ==
    /\ image = Unparsed
    /\ image' = ParseImage(img)
    /\ UNCHANGED <<img, gallery_vars, info_vars, crawler_vars, cache_vars>>

NextImages == ParseImageCall

SpecImages == InitImages /\ [][NextImages]_vars

\* ------------------------------------------------------------ parsing a product page

\* The crawler as constructed for a run that is not started.
CrawlerIdle ==
    InitCrawler({ChainSite(0, "ok")},
                [delay : {DelayMs}, retries : {StopAfterAttempt}, concurrency : {1}, max_pages : {None}])

\* The gallery of a product page, not parsed yet.
InitGallery ==
    /\ CrawlerIdle
    /\ img = [src |-> NoUrl, data_src |-> NoUrl, srcset |-> <<>>,
              width |-> NoAttribute, height |-> NoAttribute]
    /\ image = Unparsed
    /\ elems \in SeqsUpTo(GalleryElems, MaxElems)
    /\ images = Unparsed
    /\ InfoIdle
    /\ CacheConstructed

\* parse, line 40: images = self._extract_images(soup, product_url)
ExtractImagesCall ==
    /\ images = Unparsed
    /\ images' = ExtractImages(elems)
    /\ UNCHANGED <<elems, image_vars, info_vars, crawler_vars, cache_vars>>

NextGallery == ExtractImagesCall

SpecGallery == InitGallery /\ [][NextGallery]_vars

\* The tables of a product page, not parsed yet.
InitInfo ==
    /\ CrawlerIdle
    /\ img = [src |-> NoUrl, data_src |-> NoUrl, srcset |-> <<>>,
              width |-> NoAttribute, height |-> NoAttribute]
    /\ image = Unparsed
    /\ GalleryIdle
    /\ rows \in SeqsUpTo(TableRows, MaxRows)
    /\ additional_information = Unparsed
    /\ CacheConstructed

\* parse, line 37: additional_info = self._extract_additional_info(soup)
ExtractAdditionalInfoCall ==
    /\ additional_information = Unparsed
    /\ additional_information' = ExtractAdditionalInfo(rows)
    /\ UNCHANGED <<rows, image_vars, gallery_vars, crawler_vars, cache_vars>>

NextInfo == ExtractAdditionalInfoCall

SpecInfo == InitInfo /\ [][NextInfo]_vars

\* ------------------------------------------------------------ calls of the cache

InitCache ==
    /\ InitCrawler({ChainSite(0, "ok")},
                   [delay : {DelayMs}, retries : {StopAfterAttempt}, concurrency : {1}, max_pages : {None}])
    /\ ParserIdle
    /\ CacheConstructed

\* Cache.get, lines 52-70: None for a key not held; an expired entry is
\* deleted; an entry found is moved to the end.
CacheGet(k) ==
    /\ IF k \notin KeysOf(cache)
       THEN UNCHANGED <<cache, recency>>
       ELSE IF IsExpired(EntryOf(cache, k).expiry, now)
       THEN /\ cache' = Without(cache, {k})
            /\ recency' = Dropped(recency, {k})
       ELSE /\ cache' = MoveToEnd(cache, k)
            /\ recency' = Used(recency, k)
    /\ last_set' = NoSet
    /\ last_get' = IF k \notin KeysOf(cache) THEN NoGet
                   ELSE [found |-> TRUE,
                         returned |-> ~IsExpired(EntryOf(cache, k).expiry, now),
                         passed |-> now > EntryOf(cache, k).expiry]
    /\ UNCHANGED <<now, crawler_vars, parser_vars>>

\* Cache.set, lines 72-89: the oldest entries are popped while the cache is
\* full, then the key is assigned its value and expiry.
CacheSet(k) ==
    LET n == Popped(cache)
        popped == {cache[i].key : i \in 1..n}
    IN  /\ cache' = Assign(SubSeq(cache, n + 1, Len(cache)),
                           [key |-> k, expiry |-> now + DefaultTtl])
        /\ recency' = Used(Dropped(recency, popped), k)
        /\ last_set' = [key |-> k,
                        added |-> k \notin KeysOf(cache),
                        full |-> Len(cache) >= MaxCacheSize,
                        evicted |-> [i \in 1..n |-> cache[i].key],
                        lru |-> IF recency = <<>> THEN 0 ELSE Head(recency)]
        /\ last_get' = NoGet
        /\ UNCHANGED <<now, crawler_vars, parser_vars>>

\* Cache.delete, lines 91-97
CacheDelete(k) ==
    /\ k \in KeysOf(cache)
    /\ cache' = Without(cache, {k})
    /\ recency' = Dropped(recency, {k})
    /\ last_set' = NoSet
    /\ last_get' = NoGet
    /\ UNCHANGED <<now, crawler_vars, parser_vars>>

\* Cache.clear, lines 99-104
CacheClear ==
    /\ cache # <<>>
    /\ cache' = <<>>
    /\ recency' = <<>>
    /\ last_set' = NoSet
    /\ last_get' = NoGet
    /\ UNCHANGED <<now, crawler_vars, parser_vars>>

\* Cache.cleanup_expired, lines 106-116
CacheCleanupExpired ==
    LET expired == {cache[i].key : i \in {j \in 1..Len(cache) : now > cache[j].expiry}}
    IN  /\ expired # {}
        /\ cache' = Without(cache, expired)
        /\ recency' = Dropped(recency, expired)
        /\ last_set' = NoSet
        /\ last_get' = NoGet
        /\ UNCHANGED <<now, crawler_vars, parser_vars>>

\* time.time() moves on between two calls.
Tick ==
    /\ now < MaxTime
    /\ now' = now + 1
    /\ UNCHANGED <<cache, recency, last_set, last_get, crawler_vars, parser_vars>>

NextCache ==
    \/ \E k \in Keys : CacheGet(k)
    \/ \E k \in Keys : CacheSet(k)
    \/ \E k \in Keys : CacheDelete(k)
    \/ CacheClear
    \/ CacheCleanupExpired
    \/ Tick

SpecCache == InitCache /\ [][NextCache]_vars

\* ------------------------------------------------------------ reference run

RECURSIVE DiscoverAll(_, _, _, _)
\* _discover_products, lines 166-225, run to its end without interruption from
\* the given frontier: the product_urls it can end with (one set per order
\* the link lists can come in).
DiscoverAll(visited, pending, found, pages) ==
    IF pending = <<>> \/ (Truthy(cfg.max_pages) /\ pages >= cfg.max_pages)
    THEN {found}
    ELSE LET url == Head(pending)
             rest == Tail(pending)
         IN  IF url \in visited \/ site[url].status # "ok"
             THEN DiscoverAll(visited, rest, found, pages)
             ELSE IF site[url].is_product
             THEN DiscoverAll(visited \cup {url}, rest, found \cup {url}, pages + 1)
             ELSE UNION {DiscoverAll(visited \cup {url}, p,
                                     found \cup site[url].product_urls, pages + 1) :
                            p \in MergedPendings(rest, visited \cup {url}, site[url])}

\* The product_urls of one uninterrupted discovery of the site from the start URL.
UninterruptedProductUrls == DiscoverAll({}, <<StartUrl>>, {}, 0)

\* This invocation restored its frontier from the state file.
Resumed == run > 1 /\ pages_crawled < Cardinality(visited_urls)

\* ------------------------------------------------------------ claims

Count(s, u) == Cardinality({i \in 1..Len(s) : s[i] = u})

\* C1: in every reachable state, fresh or resumed from a checkpoint, pending
\* holds no URL that is in visited and holds no URL twice (so the merge of a
\* listing's links appended nothing that was already visited or pending).
C1_PendingDedup ==
    /\ \A i \in 1..Len(pending_urls) : pending_urls[i] \notin visited_urls
    /\ \A i, j \in 1..Len(pending_urls) : i # j => pending_urls[i] # pending_urls[j]

\* C1 witness: a resumed run has just merged a listing that links a visited
\* URL and a pending URL.
C1_Witness ==
    /\ Resumed
    /\ pc = "discover"
    /\ pages_crawled >= 1
    /\ cur \in visited_urls
    /\ ~site[cur].is_product
    /\ \E l \in site[cur].category_urls \cup site[cur].pagination_urls : l \in visited_urls
    /\ \E l \in site[cur].category_urls \cup site[cur].pagination_urls : InSeq(l, pending_urls)

\* C2 as stated: no fetch is in progress for a URL that is in visited, in
\* whichever phase.
C2_NoFetchOfVisited ==
    \A u \in URLs : fstate[u] \in InFlight => u \notin visited_urls

\* C2 amended: a fetch in progress is either the discovery loop's fetch of a
\* URL that is not in visited, or a product task's fetch of a URL of
\* productUrls (whether or not discovery visited that URL).
C2_FetchUnvisitedOrProduct ==
    \A u \in URLs :
        fstate[u] \in InFlight =>
            \/ pc = "disc_fetch" /\ u = cur /\ u \notin visited_urls
            \/ pc = "gather" /\ tstate[u] = "running" /\ u \in product_urls

\* C2 witness: in a resumed run a product task fetches a URL that discovery
\* visited.
C2_Witness ==
    /\ Resumed
    /\ pc = "gather"
    /\ \E u \in URLs : fstate[u] = "request" /\ u \in visited_urls

Holders == {u \in URLs : tstate[u] = "running"}

\* C3: the tasks inside the gate (in their delay, request or backoff) never
\* number more than the concurrency setting, and the free slots are exactly
\* the ones not held, so a task enters only when a slot is free.
C3_GateBound ==
    /\ Cardinality(Holders) <= cfg.concurrency
    /\ sem >= 0
    /\ sem + Cardinality(Holders) = cfg.concurrency

\* C3 witness: the gate is full, one holder is in a retry backoff, and a task
\* is waiting outside.
C3_Witness ==
    /\ pc = "gather"
    /\ cfg.concurrency = MaxConcurrency
    /\ sem = 0
    /\ \E u \in Holders : fstate[u] = "backoff"
    /\ \E u \in URLs : tstate[u] = "waiting"

\* C4 as stated: after an interrupt the process has exited non-zero and the
\* state file holds the frontier as it was at that moment.
C4_InterruptSavesState ==
    pc = "interrupted" =>
        /\ exit_code # 0
        /\ state_file = SaveState(visited_urls, pending_urls, product_urls)

SavedVisited == IF state_file.exists THEN LoadSet(state_file.visited_urls) ELSE {}

\* C5 as stated: during discovery at most N = 10 crawled pages are missing
\* from the state file.
C5_AtMostTenLost ==
    pc \in {"discover", "disc_fetch"} =>
        Cardinality(visited_urls \ SavedVisited) <= SaveEvery

C7_TransientRequestedRetriesTimes ==
    \A u \in URLs :
        (site[u].status \in Transient /\ fstate[u] = "failed") =>
            attempts[u] = cfg.retries

Permanent == {"notfound", "connect"}

PhaseErrors(u) ==
    {i \in (errors_at_fetch + 1)..Len(errors) : errors[i].url = u}

\* C8: a URL that answers 404 or does not answer is requested once by a
\* fetch, never waits in a backoff, and the fetch leaves one error entry: the
\* last entry after the discovery loop handled it, exactly one entry of the
\* product phase after its task ended.
C8_PermanentOnce ==
    \A u \in URLs :
        site[u].status \in Permanent =>
            /\ attempts[u] <= 1
            /\ fstate[u] # "backoff"
            /\ fstate[u] = "failed" => attempts[u] = 1
            /\ (u = cur /\ pc \in {"discover", "fetch_products"}) =>
                    /\ attempts[u] = 1
                    /\ Len(errors) >= 1
                    /\ errors[Len(errors)] = [url |-> u, error |-> ErrorOf(site[u].status)]
            /\ tstate[u] = "done" =>
                    /\ attempts[u] = 1
                    /\ Cardinality(PhaseErrors(u)) = 1
                    /\ \A i \in PhaseErrors(u) : errors[i].error = ErrorOf(site[u].status)

\* C8 witness: a run ended in which a page answered 404 and a product did
\* not answer.
C8_Witness ==
    /\ pc = "done"
    /\ \E u \in Pages : site[u].status = "notfound" /\ attempts[u] = 1
    /\ \E u \in ProductIds : site[u].status = "connect" /\ tstate[u] = "done"

\* C9: once the product phase has drained, every URL of productUrls has
\* exactly one outcome, a Product or an error entry of this phase, and the
\* two collections together have as many entries as productUrls.
C9_OneOutcomePerProduct ==
    ((pc = "gather" /\ Drained) \/ pc \in {"results_saved", "report_saved", "done"}) =>
        /\ \A u \in product_urls :
                Count(products, u) + Cardinality(PhaseErrors(u)) = 1
        /\ \A i \in 1..Len(products) : products[i] \in product_urls
        /\ Len(products) + (Len(errors) - errors_at_fetch) = Cardinality(product_urls)

\* C9 witness: the phase drained, with two tasks at a time, with a Product, a
\* failed fetch and a failed parse among the outcomes.
C9_Witness ==
    /\ pc = "gather"
    /\ Drained
    /\ cfg.concurrency = MaxConcurrency
    /\ Len(products) >= 1
    /\ \E i \in (errors_at_fetch + 1)..Len(errors) : errors[i].error = "ParseError"
    /\ \E i \in (errors_at_fetch + 1)..Len(errors) : errors[i].error = "RetryError"

\* C10: when a run has completed, catalog.jsonl has as many rows as
\* report.json gives in total_products_found.
C10_RowsEqualReported ==
    pc = "done" =>
        /\ jsonl_file.exists
        /\ report_file.exists
        /\ Len(jsonl_file.rows) = report_file.report.total_products_found

\* C10 witness: a run completed in which some product failed and some did not.
C10_Witness ==
    /\ pc = "done"
    /\ Len(jsonl_file.rows) >= 1
    /\ Len(jsonl_file.rows) < Cardinality(product_urls)

\* Discovery has not ended yet.
Discovering == {"start", "discover", "disc_fetch", "fetch_products"}

\* catalog.jsonl is written or being followed by the report and the clean-up.
Writing == {"results_saved", "report_saved", "done"}

\* C11: a run goes through discovery, product fetching and writing in that
\* order: while discovery lasts no product task exists and nothing is parsed
\* or written; catalog.jsonl is written only when every product task has
\* ended; and from the write on the Product collection stays what was written.
C11_PhasesInOrder ==
    /\ pc \in Discovering =>
            /\ \A u \in URLs : tstate[u] = "none"
            /\ products = <<>>
            /\ ~jsonl_file.exists
    /\ (\E u \in URLs : tstate[u] # "none") => pc \in {"gather"} \cup Writing
    /\ jsonl_file.exists =>
            /\ pc \in Writing
            /\ \A u \in URLs : tstate[u] \in {"none", "done"}
            /\ jsonl_file.rows = products

\* C11 witness: with one slot for three product tasks (so tasks waited at the
\* gate), catalog.jsonl has been written with a Product, after a failure.
C11_Witness ==
    /\ pc = "results_saved"
    /\ cfg.concurrency = 1
    /\ Cardinality(product_urls) = NumProducts
    /\ Len(jsonl_file.rows) >= 1
    /\ Len(errors) > errors_at_fetch

\* The process has exited.
Exited == {"done", "interrupted"}

\* C12: a completed run leaves no state file, and leaves catalog.jsonl and
\* report.json as it wrote them; a state file present after the exit belongs
\* to a run that did not complete; and the step that removes the state file
\* is taken only when this run has written both files.
C12_StateFileRemovedLast ==
    /\ [](pc = "done" =>
            /\ ~state_file.exists
            /\ jsonl_file = [exists |-> TRUE, rows |-> products]
            /\ report_file = [exists |-> TRUE, report |-> report, errors |-> errors])
    /\ []((pc \in Exited /\ state_file.exists) => pc = "interrupted")
    /\ [][(state_file.exists /\ ~state_file'.exists) =>
            /\ pc = "report_saved"
            /\ pc' = "done"
            /\ jsonl_file = [exists |-> TRUE, rows |-> products]
            /\ report_file = [exists |-> TRUE, report |-> report, errors |-> errors]]_vars

\* C12 witness: a run that resumed from a state file has completed with
\* products written.
C12_Witness ==
    /\ pc = "done"
    /\ Resumed
    /\ ~force
    /\ Len(jsonl_file.rows) >= 1

\* C13 as stated: a fresh run whose fetch of the start URL fails does not go
\* on to the product phase or to the writing of an empty catalog, and the
\* process does not exit with code 0.
C13_StartFailureAborts ==
    (run = 1 /\ site[StartUrl].status # "ok") =>
        /\ pc \notin {"fetch_products", "gather"} \cup Writing
        /\ exit_code # 0

\* This invocation has just restored its frontier from the state file.
JustLoaded ==
    /\ ~force
    /\ state_file.exists
    /\ pc = "discover"
    /\ pages_crawled = 0
    /\ errors = <<>>

\* C16: a state file that holds the frontier as _save_state writes it loads
\* back to that frontier: the same visited set, the same pending list in the
\* same order, the same productUrls; and a run that resumed holds exactly
\* what the file holds, the start URL not enqueued again.
C16_SaveLoadIdentity ==
    /\ (state_file.exists
            /\ state_file = SaveState(visited_urls, pending_urls, product_urls)) =>
            /\ LoadSet(state_file.visited_urls) = visited_urls
            /\ LoadPending(state_file) = pending_urls
            /\ LoadSet(state_file.product_urls) = product_urls
    /\ JustLoaded =>
            /\ state_file = SaveState(visited_urls, pending_urls, product_urls)
            /\ Count(pending_urls, StartUrl) = Count(state_file.pending_urls, StartUrl)

\* C16 witness: a later invocation has just loaded a state file that holds
\* visited pages, products and two or more pending URLs, the start URL among
\* the visited.
C16_Witness ==
    /\ run > 1
    /\ JustLoaded
    /\ StartUrl \in visited_urls
    /\ product_urls # {}
    /\ Len(pending_urls) >= 2

\* C17 as stated: once the task of a product URL has ended with its page
\* fetched, the URL is a member of visited.
C17_FetchedProductVisited ==
    \A u \in product_urls :
        (tstate[u] = "done" /\ site[u].status = "ok") => u \in visited_urls

\* The URLs of the frontier.
Frontier ==
    visited_urls \cup product_urls \cup {pending_urls[i] : i \in 1..Len(pending_urls)}

\* C14: whatever <a> elements the pages show, every URL of pending and of
\* productUrls (and so every URL fetched) has the host of the base URL.
C14_SameHostOnly ==
    /\ \A u \in Frontier : UrlOf(u).host = BaseHost
    /\ \A u \in URLs : (fstate[u] # "idle" \/ tstate[u] # "none") => UrlOf(u).host = BaseHost

\* C14 witness: the start page showed a product link to another host and an
\* pagination link to another host, discovery merged the links of the page
\* and the run completed.
C14_Witness ==
    /\ pc = "done"
    /\ \E a \in site[StartUrl].anchors : a.host = "other" /\ HrefContains(a, "/product/")
    /\ \E a \in site[StartUrl].anchors : a.host = "other" /\ a.in_pagination
    /\ StartUrl \in visited_urls

\* C15 as stated: every URL of the frontier has no query string and no
\* fragment, so two links that differ only in those are one frontier entry,
\* whether product, category or pagination links.
C15_FrontierCanonical ==
    /\ \A u \in Frontier : UrlOf(u) = StripQueryAndFragment(UrlOf(u))
    /\ \A u, v \in Frontier :
            StripQueryAndFragment(UrlOf(u)) = StripQueryAndFragment(UrlOf(v)) => u = v

\* C18 as stated: the parse of an element never raises: whatever the form of
\* its attributes, the outcome is an image or none, not an exception.
C18_ParseNeverRaises ==
    image # Unparsed => image.kind \in {"image", "None"}

\* The width a srcset descriptor states, 0 if it states none.
DescriptorWidth(d) ==
    CASE d = "300w" -> 300
      [] d = "600w" -> 600
      [] d = "1200w" -> 1200
      [] OTHER -> 0

\* C19 as stated: when an img with a srcset is parsed to an image, its URL is
\* the candidate of the largest numeric width (the img's src or lazy-load
\* attribute if no candidate has a numeric width), and its srcset list holds
\* every candidate of the attribute, in order.
C19_LargestAndAllKept ==
    (image.kind = "image" /\ img.srcset # <<>>) =>
        /\ \A i \in 1..Len(img.srcset) :
                (/\ DescriptorWidth(img.srcset[i].descriptor) > 0
                 /\ \A j \in 1..Len(img.srcset) :
                        DescriptorWidth(img.srcset[j].descriptor)
                            <= DescriptorWidth(img.srcset[i].descriptor))
                    => image.url = UrlJoinFile(img.srcset[i].url)
        /\ (\A i \in 1..Len(img.srcset) : DescriptorWidth(img.srcset[i].descriptor) = 0)
                => image.url = UrlJoinFile(IF img.src # NoUrl THEN img.src ELSE img.data_src)
        /\ Len(image.srcset) = Len(img.srcset)
        /\ \A i \in 1..Len(img.srcset) : image.srcset[i].url = UrlJoinFile(img.srcset[i].url)

\* C20 as stated: a set that adds a key to a full cache evicts one entry, the
\* one least recently used, a set and a successful get both being a use.
C20_EvictsLeastRecentlyUsed ==
    (last_set.added /\ last_set.full) => last_set.evicted = <<last_set.lru>>

\* C21: the step the discovery loop takes once the fetch of a URL has failed
\* (no interrupt arriving) appends one entry {url, error} for that URL to the
\* error list, changes neither visited nor productUrls nor pending, which does
\* not hold the URL, and leaves the run in the loop, at its next iteration.
C21_FailureRecordedLoopGoesOn ==
    [][(pc = "disc_fetch" /\ fstate[cur] = "failed" /\ pc' # "interrupted") =>
            /\ Len(errors') = Len(errors) + 1
            /\ SubSeq(errors', 1, Len(errors)) = errors
            /\ errors'[Len(errors')].url = cur
            /\ visited_urls' = visited_urls
            /\ product_urls' = product_urls
            /\ pending_urls' = pending_urls
            /\ ~InSeq(cur, pending_urls')
            /\ cur \notin visited_urls'
            /\ pc' = "discover"]_vars

\* C21 witness: after the failure of one URL was recorded, the loop is
\* requesting another URL.
C21_Witness ==
    /\ pc = "disc_fetch"
    /\ fstate[cur] = "request"
    /\ Len(errors) = 1
    /\ errors[1].url # cur
    /\ site[errors[1].url].status # "ok"

\* C22 as stated: when discovery has ended under a page limit m >= 0, at most
\* m pages were crawled, and what is pending then stays unfetched.
C22_StopsAtMaxPages ==
    (cfg.max_pages # None /\ pc \in {"fetch_products", "gather"} \cup Writing) =>
        /\ pages_crawled <= cfg.max_pages
        /\ report.total_pages_crawled <= cfg.max_pages

RequestsOf(u) == {i \in 1..Len(fetch_log[u]) : fetch_log[u][i].kind = "request"}

BackoffsOf(u) == {i \in 1..Len(fetch_log[u]) : fetch_log[u][i].kind = "backoff"}

\* C23: in every call of the fetch each request, the first as well as each
\* retry, comes directly after a politeness delay of the configured length
\* (so there are as many requests as attempts and a delay for each).
C23_DelayBeforeEveryRequest ==
    \A u \in URLs :
        /\ Cardinality(RequestsOf(u)) = attempts[u]
        /\ \A i \in RequestsOf(u) :
                /\ i > 1
                /\ fetch_log[u][i - 1] = [kind |-> "delay", ms |-> cfg.delay]

\* C23 witness: the fetch of a product task has ended after three requests
\* and two backoffs.
C23_Witness ==
    \E u \in URLs :
        /\ tstate[u] = "running"
        /\ fstate[u] = "failed"
        /\ attempts[u] = StopAfterAttempt
        /\ Cardinality(BackoffsOf(u)) = StopAfterAttempt - 1

\* C24 as stated: the k-th backoff of a call lasts min(30, 2 * 2^(k-1))
\* seconds.
C24_BackoffDoubles ==
    \A u \in URLs :
        \A i \in BackoffsOf(u) :
            LET k == Cardinality({j \in BackoffsOf(u) : j <= i})
            IN  fetch_log[u][i].ms = 1000 * Smaller(30, 2 * 2 ^ (k - 1))

\* C25 as stated: in the images parse_product returns, no two gallery images
\* have the same resolved URL, and no gallery image has the resolved URL of
\* the main image, whichever selector or attribute each came from.
C25_GalleryDeduplicated ==
    images.kind = "images" =>
        /\ \A i, j \in 1..Len(images.gallery) :
                i # j => images.gallery[i].url # images.gallery[j].url
        /\ images.main.kind = "image" =>
                \A i \in 1..Len(images.gallery) :
                    images.gallery[i].url # images.main.url

\* The entries the rows of the specification tables stand for, each row once:
\* the rows of the tab, then the rows of the attributes table that the tab did
\* not give already.
RECURSIVE OncePerAttributeRow(_)
OncePerAttributeRow(rs) ==
    IF rs = <<>> THEN <<>>
    ELSE (IF Head(rs).in_attributes /\ Head(rs).labelled
                /\ ~(Head(rs).in_tab /\ Head(rs).th_td)
          THEN <<AdditionalInfo(Head(rs))>> ELSE <<>>)
            \o OncePerAttributeRow(Tail(rs))

\* C26 as stated: additional_information holds one entry per row of the
\* specification tables, the rows of the tab first and the rows of the
\* attributes table after them, and no row twice, also when the attributes
\* table is the table inside the tab.
C26_OneEntryPerRow ==
    additional_information.kind = "list" =>
        additional_information.list = TabEntries(rows) \o OncePerAttributeRow(rows)

\* C27: on every finite site discovery terminates: after finitely many
\* fetches the loop of _discover_products is left, with pending empty unless
\* --max-pages ended it, also when a page that fails on every fetch is linked
\* from several listing pages and is enqueued again after it failed.
C27_DiscoveryTerminates ==
    <>(/\ pc \notin {"start", "discover", "disc_fetch"}
       /\ ~Truthy(cfg.max_pages) => pending_urls = <<>>)

\* C27 witness: discovery has ended with pending empty after one page, linked
\* from several listing pages, was fetched and failed twice.
C27_Witness ==
    /\ pc = "fetch_products"
    /\ pending_urls = <<>>
    /\ \E i, j \in 1..Len(errors) :
            /\ i < j
            /\ errors[i].url = errors[j].url
            /\ Cardinality({u \in URLs : errors[i].url \in site[u].category_urls
                                            \cup site[u].pagination_urls}) > 1

\* C28: for every concurrency and every mix of successful and failing product
\* fetches the product phase drains: once the tasks are created, a moment
\* comes at which every task has ended, none waits at the gate, and all
\* `concurrency` slots of the semaphore are free.
C28_ProductPhaseDrains ==
    (pc = "gather") ~>
        (/\ pc = "gather"
         /\ Drained
         /\ \A u \in URLs : tstate[u] # "waiting"
         /\ sem = cfg.concurrency)

\* C28 witness: the phase has drained with more tasks than slots, one task
\* having ended on the success path and one on the failure path.
C28_Witness ==
    /\ pc = "gather"
    /\ Drained
    /\ sem = cfg.concurrency
    /\ Cardinality({u \in URLs : tstate[u] = "done"}) > cfg.concurrency
    /\ products # <<>>
    /\ Len(errors) > errors_at_fetch

IsPrefix(s, t) == Len(s) <= Len(t) /\ SubSeq(t, 1, Len(s)) = s

NoTwoAlike(s) == \A i, j \in 1..Len(s) : i # j => s[i] # s[j]

\* C29: in the product phase every URL of product_urls has one task, which
\* leaves one Product or one error; no two Products of self.products have the
\* same product_url at any moment; and every step of a run only appends to
\* self.products and to the error list.
C29_OneTaskPerUrlAppendOnly ==
    [][/\ NoTwoAlike(products) /\ NoTwoAlike(products')
       /\ IsPrefix(products, products')
       /\ IsPrefix(errors, errors')
       /\ \A i \in 1..Len(products') :
               products'[i] \in product_urls' /\ tstate'[products'[i]] = "done"
       /\ pc' = "gather" =>
               Len(products') + Len(errors') - errors_at_fetch'
                   = Cardinality({u \in URLs : tstate'[u] = "done"})]_vars

\* C29 witness: with two slots, a task runs while the collection holds a
\* Product and the product phase has recorded an error.
C29_Witness ==
    /\ pc = "gather"
    /\ cfg.concurrency > 1
    /\ Len(products) >= 1
    /\ Len(errors) > errors_at_fetch
    /\ \E u \in URLs : tstate[u] = "running"

\* C30: whatever calls of set, get, delete, clear and cleanup_expired follow
\* one another, and however time passes between them, the cache never holds
\* more than max_size entries, and get never returns the value of an entry
\* whose expiry time had passed when get was called.
C30_BoundedAndFresh ==
    /\ Len(cache) <= MaxCacheSize
    /\ last_get.returned => ~last_get.passed

\* C30 witness: on a full cache, get has found an entry whose expiry time had
\* passed, has deleted it and has returned None.
C30_Witness ==
    /\ last_get.found
    /\ ~last_get.returned
    /\ last_get.passed
    /\ Len(cache) = MaxCacheSize - 1

====
